---- MODULE Spec2Model ----
\* A model of class Buf (src/util/native/buf.h): a pointer+length view that
\* either shares a reference-counted Alloc (owning) or wraps caller memory
\* (borrowing).  Memory is a set of blocks; a pointer is a block and an offset.
EXTENDS Integers, Sequences, FiniteSets, TLC

\* ---------------------------------------------------------------- bounds
NBuf == 3          \* Buf objects that can be alive at once
MaxAlloc == 2      \* Alloc objects ever created in one run (ids are not reused)
MaxLen == 1        \* largest length passed to Buf(int) and Buf(int, uint8_t)
MaxCat == 2        \* largest total length passed to the concat constructor
ExtLen == 2        \* length of the caller-managed memory that is wrapped
MaxByte == 1       \* bytes range over 0..MaxByte
MaxSrc == 2        \* longest source sequence handed to the concat constructor
NThreads == 2      \* threads of the concurrent specifications
MaxOps == 5        \* operations the threads start in the concurrent specifications

Bufs == 1..NBuf
Allocs == 1..MaxAlloc
Byte == 0..MaxByte
Lens == 0..MaxLen
\* arguments of slice: negative, in range and larger than any view
SliceArgs == (0 - 1)..(MaxCat + 1)
\* indices of operator[]: before, inside and beyond a view
WriteArgs == (0 - 1)..MaxCat
\* arguments of slice that need no clamping
NearArgs == 0..ExtLen
\* the block of caller-managed memory that borrowing buffers wrap
ExtBlock == MaxAlloc + 1
Blocks == 1..ExtBlock
Threads == 1..NThreads

VARIABLES
    buf,     \* buf[b]: the Buf object in slot b: live, _alloc, _data, _len (and
             \* _ref, the second word of _alloc, where threads run)
    alloc,   \* alloc[a]: the Alloc object a: st, _data, _len, use_count
    heap,    \* heap[k]: memory block k: st, bytes, frees
    caller,  \* the pointers detach_alloc has returned to the caller
    fault,   \* "none", or how the process stopped
    th       \* th[t]: where thread t is inside an operation, its locals (the
             \* slots d and s, the registers a, r, p, n, seen), how many
             \* operations it has started (k), and held, the count the Alloc
             \* had when the thread entered detach_alloc (a record of the
             \* run, nothing the thread has read)

vars == <<buf, alloc, heap, caller, fault, th>>

\* ---------------------------------------------------------------- memory
NULL == [blk |-> 0, off |-> 0]

PtrAdd(p, n) == [blk |-> p.blk, off |-> p.off + n]

\* what memory that no constructor has written, or that the allocator has taken
\* back, may hold instead of zeros: a pointer to no Alloc, a pointer into no
\* block, a length and a count that are far from every value in use
Wild == 0 - 1

WildPtr == [blk |-> Wild, off |-> 0]

JunkLen == 0 - 100

JunkCount == 0 - 100

\* a Buf object that does not exist (never constructed, or destroyed)
NoBuf == [live |-> FALSE, _alloc |-> 0, _data |-> NULL, _len |-> 0]

NoAlloc == [st |-> "none", _data |-> NULL, _len |-> 0, use_count |-> 0]

NoBlock == [st |-> "unalloc", bytes |-> << >>, frees |-> 0]

\* the contents of the caller-managed memory at the start
ExtBytes == [i \in 1..ExtLen |-> (i - 1) % (MaxByte + 1)]

\* the thread that owns the Buf object in slot b
owner(b) == ((b - 1) % NThreads) + 1

\* a thread that is not inside an operation
Idle == [pc |-> "idle", d |-> 0, s |-> 0, a |-> 0, r |-> 0, seen |-> FALSE,
         p |-> NULL, n |-> 0, k |-> 0, held |-> 0]

\* the program state the operations below transform
Cur == [buf |-> buf, alloc |-> alloc, heap |-> heap]

Set(P) == /\ buf' = P.buf
          /\ alloc' = P.alloc
          /\ heap' = P.heap

\* the smallest Alloc id not used yet (MaxAlloc + 1 when all are used)
NextAlloc(P) ==
    IF \E a \in Allocs : P.alloc[a].st = "none"
    THEN CHOOSE a \in Allocs :
            /\ P.alloc[a].st = "none"
            /\ \A c \in Allocs : c < a => P.alloc[c].st # "none"
    ELSE MaxAlloc + 1

\* the byte at index i of the view of length >= i+1 starting at p
Mem(P, p, i) == P.heap[p.blk].bytes[p.off + i + 1]

\* delete[] p
delete(P, p) ==
    IF p = NULL
    THEN P
    ELSE [P EXCEPT !.heap[p.blk].st = "freed",
                   !.heap[p.blk].bytes = << >>,
                   !.heap[p.blk].frees = IF @ < 2 THEN @ + 1 ELSE @]

\* ---------------------------------------------------------------- Alloc
\* Alloc::Alloc(int len): new uint8_t[len], contents uninitialized (bytes)
Alloc_new(P, a, len, bytes) ==
    [P EXCEPT !.alloc[a] = [st |-> "live", _data |-> [blk |-> a, off |-> 0],
                            _len |-> len, use_count |-> 0],
              !.heap[a] = [st |-> "live", bytes |-> bytes, frees |-> 0]]

\* Alloc::Alloc(void* data, int len), Alloc::Alloc(const void* data, int len):
\* the pointer and the length are stored, nothing is allocated
Alloc_wrap(P, a, p, len) ==
    [P EXCEPT !.alloc[a] = [st |-> "live", _data |-> p,
                            _len |-> len, use_count |-> 0]]

\* Alloc::~Alloc
Alloc_dtor(P, a) ==
    [delete(P, P.alloc[a]._data) EXCEPT !.alloc[a] = [NoAlloc EXCEPT !.st = "dead"]]

\* a detach that hands the pointer out and keeps it
Alloc_detach_keep(P, a) == P

\* a detach after which the buffers no longer hold the emptied Alloc
Alloc_detach_drop(P, a) ==
    [P EXCEPT !.alloc[a]._data = NULL, !.alloc[a]._len = 0,
              !.buf = [c \in DOMAIN @ |->
                          IF @[c].live /\ @[c]._alloc = a
                          THEN [@[c] EXCEPT !._alloc = 0]
                          ELSE @[c]]]

\* a detach that also empties the view of the buffers that hold the Alloc
Alloc_detach_views(P, a) ==
    [P EXCEPT !.alloc[a]._data = NULL, !.alloc[a]._len = 0,
              !.buf = [c \in DOMAIN @ |->
                          IF @[c].live /\ @[c]._alloc = a
                          THEN [@[c] EXCEPT !._data = NULL, !._len = 0]
                          ELSE @[c]]]

\* a detach that does nothing while the Alloc is shared
Alloc_detach_if_unique(P, a) ==
    IF P.alloc[a].use_count = 1
    THEN [P EXCEPT !.alloc[a]._data = NULL, !.alloc[a]._len = 0]
    ELSE P

\* Alloc::detach: the state afterwards
Alloc_detach(P, a) ==
    [P EXCEPT !.alloc[a]._data = NULL, !.alloc[a]._len = 0]

\* std::shared_ptr<Alloc>(new Alloc(...)): the first reference
sp_new(P, a) == [P EXCEPT !.alloc[a].use_count = 1]

\* a copy of the raw pointer that takes no reference
sp_acquire_uncounted(P, a) == P

\* std::shared_ptr<Alloc>: taking a reference (the null pointer has no count)
sp_acquire(P, a) ==
    IF a = 0 THEN P ELSE [P EXCEPT !.alloc[a].use_count = @ + 1]

\* a release that never gives the reference back
sp_release_leak(P, a) == P

\* std::shared_ptr<Alloc>: dropping a reference; the last one destroys the Alloc
sp_release(P, a) ==
    IF a = 0
    THEN P
    ELSE IF P.alloc[a].use_count = 1
         THEN Alloc_dtor([P EXCEPT !.alloc[a].use_count = 0], a)
         ELSE [P EXCEPT !.alloc[a].use_count = @ - 1]

\* ---------------------------------------------------------------- Buf
\* Alloc::Alloc(const Alloc& other): a new block with a copy of the bytes
Alloc_copy(P, a, other) ==
    LET src == P.alloc[other]
    IN [P EXCEPT !.alloc[a] = [st |-> "live", _data |-> [blk |-> a, off |-> 0],
                               _len |-> src._len, use_count |-> 0],
                 !.heap[a] = [st |-> "live",
                              bytes |-> [i \in 1..src._len |-> Mem(P, src._data, i - 1)],
                              frees |-> 0]]

\* an init that duplicates the bytes of an owning source into a new Alloc
\* (while there is an Alloc id left) instead of sharing the source's Alloc
init_deep(P, b, other) ==
    LET src == P.buf[other]
        a == NextAlloc(P)
    IN IF src._alloc = 0 \/ a \notin Allocs \/ P.alloc[src._alloc]._data = NULL
       THEN [sp_release(sp_acquire(P, src._alloc), P.buf[b]._alloc)
                EXCEPT !.buf[b] = [live |-> TRUE, _alloc |-> src._alloc,
                                   _data |-> src._data, _len |-> src._len]]
       ELSE LET P1 == sp_new(Alloc_copy(P, a, src._alloc), a)
                P2 == sp_release(P1, P.buf[b]._alloc)
            IN [P2 EXCEPT !.buf[b] =
                   [live |-> TRUE, _alloc |-> a,
                    _data |-> [blk |-> a, off |-> src._data.off],
                    _len |-> src._len]]

\* Buf::init: _alloc = other._alloc; _data = other._data; _len = other._len
init(P, b, other) ==
    LET src == P.buf[other]
        P1 == sp_acquire(P, src._alloc)
        P2 == sp_release(P1, P.buf[b]._alloc)
    IN [P2 EXCEPT !.buf[b] = [live |-> TRUE, _alloc |-> src._alloc,
                              _data |-> src._data, _len |-> src._len]]

\* a slice that narrows the view of every buffer that holds the same Alloc
slice_shared(P, b, offset, len) ==
    LET L0 == P.buf[b]._len
        o1 == IF offset > L0 THEN L0 ELSE offset
        o2 == IF o1 < 0 THEN 0 ELSE o1
        L1 == L0 - o2
        L2 == IF L1 > len THEN len ELSE L1
        L3 == IF L2 < 0 THEN 0 ELSE L2
    IN [P EXCEPT !.buf = [c \in DOMAIN @ |->
            IF c = b \/ (@[c].live /\ @[b]._alloc # 0 /\ @[c]._alloc = @[b]._alloc)
            THEN [@[c] EXCEPT !._data = PtrAdd(P.buf[b]._data, o2), !._len = L3]
            ELSE @[c]]]

\* a slice without the clamp of a negative offset
slice_neg(P, b, offset, len) ==
    LET L0 == P.buf[b]._len
        o1 == IF offset > L0 THEN L0 ELSE offset
        L1 == L0 - o1
        L2 == IF L1 > len THEN len ELSE L1
        L3 == IF L2 < 0 THEN 0 ELSE L2
    IN [P EXCEPT !.buf[b]._data = PtrAdd(@, o1), !.buf[b]._len = L3]

\* a slice without the clamp of an offset beyond the view
slice_far(P, b, offset, len) ==
    LET L0 == P.buf[b]._len
        o2 == IF offset < 0 THEN 0 ELSE offset
        L1 == L0 - o2
        L2 == IF L1 > len THEN len ELSE L1
        L3 == IF L2 < 0 THEN 0 ELSE L2
    IN [P EXCEPT !.buf[b]._data = PtrAdd(@, o2), !.buf[b]._len = L3]

\* Buf::slice
slice(P, b, offset, len) ==
    LET L0 == P.buf[b]._len
        o1 == IF offset > L0 THEN L0 ELSE offset
        o2 == IF o1 < 0 THEN 0 ELSE o1
        L1 == L0 - o2
        L2 == IF L1 > len THEN len ELSE L1
        L3 == IF L2 < 0 THEN 0 ELSE L2
    IN [P EXCEPT !.buf[b]._data = PtrAdd(@, o2), !.buf[b]._len = L3]

\* a reset to the block and length the Alloc was created with
reset_original(P, b) ==
    LET a == P.buf[b]._alloc
    IN [P EXCEPT !.buf[b]._data = [blk |-> a, off |-> 0],
                 !.buf[b]._len = Len(P.heap[a].bytes)]

\* Buf::reset, on a buffer that holds an Alloc
reset(P, b) ==
    LET a == P.buf[b]._alloc
    IN [P EXCEPT !.buf[b]._data = P.alloc[a]._data,
                 !.buf[b]._len = P.alloc[a]._len]

\* Buf::unique_alloc: shared_ptr::unique(), use_count() == 1 (0 for a null pointer)
unique_alloc(P, b) ==
    LET a == P.buf[b]._alloc
    IN IF a = 0 THEN FALSE ELSE P.alloc[a].use_count = 1

\* Buf::length, Buf::data
length(P, b) == P.buf[b]._len

data(P, b) == P.buf[b]._data

\* Buf::Buf(int len): a fresh Alloc held by slot b
Buf_len(P, b, len, bytes) ==
    LET a == NextAlloc(P)
        P1 == sp_new(Alloc_new(P, a, len, bytes), a)
    IN [P1 EXCEPT !.buf[b] = [live |-> TRUE, _alloc |-> a,
                              _data |-> P1.alloc[a]._data,
                              _len |-> P1.alloc[a]._len]]

\* Buf::operator[] used to store v at index i of the view of b
store(P, b, i, v) ==
    LET p == P.buf[b]._data
    IN [P EXCEPT !.heap[p.blk].bytes[p.off + i + 1] = v]

\* memcpy(dst, src, n)
memcpy(P, dst, src, n) ==
    [P EXCEPT !.heap[dst.blk].bytes =
        [j \in DOMAIN @ |->
            IF dst.off < j /\ j <= dst.off + n
            THEN Mem(P, src, j - 1 - dst.off)
            ELSE @[j]]]

min(x, y) == IF x < y THEN x ELSE y

\* memcmp(p, q, n) from index i on: the sign of the first pair of bytes that
\* differ, 0 when there is none (and when n = 0, whatever p and q are)
RECURSIVE memcmp_from(_, _, _, _, _)
memcmp_from(P, p, q, n, i) ==
    IF i >= n
    THEN 0
    ELSE IF Mem(P, p, i) < Mem(P, q, i)
         THEN 0 - 1
         ELSE IF Mem(P, p, i) > Mem(P, q, i)
              THEN 1
              ELSE memcmp_from(P, p, q, n, i + 1)

memcmp(P, p, q, n) == memcmp_from(P, p, q, n, 0)

\* a comparison of the common prefix of the two views
same_prefix(P, b, other) ==
    0 = memcmp(P, P.buf[b]._data, P.buf[other]._data,
               min(P.buf[b]._len, P.buf[other]._len))

\* Buf::same
same(P, b, other) ==
    /\ P.buf[b]._len = P.buf[other]._len
    /\ 0 = memcmp(P, P.buf[b]._data, P.buf[other]._data, P.buf[b]._len)

\* a loop that never advances the destination pointer
RECURSIVE concat_loop_stuck(_, _, _, _, _)
concat_loop_stuck(P, dst, len, srcs, i) ==
    IF len > 0
    THEN IF i > Len(srcs)
         THEN [ok |-> FALSE, P |-> P]
         ELSE LET now == min(len, P.buf[srcs[i]]._len)
              IN concat_loop_stuck(memcpy(P, dst, P.buf[srcs[i]]._data, now),
                                   dst, len - now, srcs, i + 1)
    ELSE [ok |-> TRUE, P |-> P]

\* the loop of Buf::Buf(int len, Iter begin, Iter end): i is the position of
\* begin in the source sequence, Len(srcs) + 1 is end; ok is FALSE when
\* assert(begin != end) fails
RECURSIVE concat_loop(_, _, _, _, _)
concat_loop(P, dst, len, srcs, i) ==
    IF len > 0
    THEN IF i > Len(srcs)
         THEN [ok |-> FALSE, P |-> P]
         ELSE LET now == min(len, length(P, srcs[i]))
              IN concat_loop(memcpy(P, dst, data(P, srcs[i]), now),
                             PtrAdd(dst, now), len - now, srcs, i + 1)
    ELSE [ok |-> TRUE, P |-> P]

\* Buf::Buf(int len, Iter begin, Iter end): the Alloc, then the loop
Buf_concat(P, b, len, srcs, bytes) ==
    LET P1 == Buf_len(P, b, len, bytes)
    IN concat_loop(P1, P1.buf[b]._data, len, srcs, 1)

\* the sequences of at most n elements of S
SeqUpTo(S, n) == UNION {[1..k -> S] : k \in 0..n}

\* ---------------------------------------------------------------- actions
Running == fault = "none"

\* what dereferencing the null _alloc does: the load or store traps, or the
\* build does anything else; either way the run is over
NullDeref ==
    /\ fault' \in {"segv", "ub"}
    /\ UNCHANGED <<buf, alloc, heap, caller, th>>

\* Buf::Buf()
BufDefault(b) ==
    /\ Running
    /\ ~buf[b].live
    /\ buf' = [buf EXCEPT ![b] = [live |-> TRUE, _alloc |-> 0,
                                  _data |-> NULL, _len |-> 0]]
    /\ UNCHANGED <<alloc, heap, caller, fault, th>>

\* Buf::Buf(int len)
BufLen(b, len) ==
    /\ Running
    /\ ~buf[b].live
    /\ NextAlloc(Cur) \in Allocs
    /\ \E bytes \in [1..len -> Byte] : Set(Buf_len(Cur, b, len, bytes))
    /\ UNCHANGED <<caller, fault, th>>

\* Buf::Buf(int len, uint8_t fill)
BufFill(b, len, fill) ==
    /\ Running
    /\ ~buf[b].live
    /\ NextAlloc(Cur) \in Allocs
    /\ \E bytes \in [1..len -> Byte] :
          LET P1 == Buf_len(Cur, b, len, bytes)
              k == P1.buf[b]._data.blk
          IN Set([P1 EXCEPT !.heap[k].bytes = [i \in 1..len |-> fill]])
    /\ UNCHANGED <<caller, fault, th>>

\* a wrapping constructor that hands the pointer to an Alloc
BufWrap_owning(b, len) ==
    /\ Running
    /\ ~buf[b].live
    /\ NextAlloc(Cur) \in Allocs
    /\ LET a == NextAlloc(Cur)
           P1 == sp_new(Alloc_wrap(Cur, a, [blk |-> ExtBlock, off |-> 0], len), a)
       IN Set([P1 EXCEPT !.buf[b] = [live |-> TRUE, _alloc |-> a,
                                     _data |-> P1.alloc[a]._data,
                                     _len |-> P1.alloc[a]._len]])
    /\ UNCHANGED <<caller, fault, th>>

\* Buf::Buf(void* data, int len), Buf::Buf(const void* data, int len)
BufWrap(b, len) ==
    /\ Running
    /\ ~buf[b].live
    /\ buf' = [buf EXCEPT ![b] = [live |-> TRUE, _alloc |-> 0,
                                  _data |-> [blk |-> ExtBlock, off |-> 0],
                                  _len |-> len]]
    /\ UNCHANGED <<alloc, heap, caller, fault, th>>

\* Buf::Buf(const Buf& other)
BufCopy(b, other) ==
    /\ Running
    /\ ~buf[b].live
    /\ buf[other].live
    /\ Set(init(Cur, b, other))
    /\ UNCHANGED <<caller, fault, th>>

\* Buf::Buf(const Buf& other, int offset, int len)
BufCopySlice(b, other, offset, len) ==
    /\ Running
    /\ ~buf[b].live
    /\ buf[other].live
    /\ Set(slice(init(Cur, b, other), b, offset, len))
    /\ UNCHANGED <<caller, fault, th>>

\* Buf::operator=
Assign(b, other) ==
    /\ Running
    /\ buf[b].live
    /\ buf[other].live
    /\ Set(init(Cur, b, other))
    /\ UNCHANGED <<caller, fault, th>>

\* Buf::~Buf: the member _alloc is released
Destroy(b) ==
    /\ Running
    /\ buf[b].live
    /\ Set([sp_release(Cur, buf[b]._alloc) EXCEPT !.buf[b] = NoBuf])
    /\ UNCHANGED <<caller, fault, th>>

\* Buf::slice
Slice(b, offset, len) ==
    /\ Running
    /\ buf[b].live
    /\ Set(slice(Cur, b, offset, len))
    /\ UNCHANGED <<caller, fault, th>>

\* Buf::reset
Reset(b) ==
    /\ Running
    /\ buf[b].live
    /\ IF buf[b]._alloc = 0
       THEN NullDeref
       ELSE /\ Set(reset(Cur, b))
            /\ UNCHANGED <<caller, fault, th>>

\* Buf::detach_alloc: the returned pointer goes to the caller
DetachAlloc(b) ==
    /\ Running
    /\ buf[b].live
    /\ IF buf[b]._alloc = 0
       THEN NullDeref
       ELSE /\ Set(Alloc_detach(Cur, buf[b]._alloc))
            /\ caller' = caller \cup {alloc[buf[b]._alloc]._data}
            /\ UNCHANGED <<fault, th>>

\* the address p + i is a byte of an allocated block
InBlock(P, p, i) ==
    /\ p.blk \in Blocks
    /\ P.heap[p.blk].st = "live"
    /\ 0 <= p.off + i
    /\ p.off + i < Len(P.heap[p.blk].bytes)

\* what an access outside every allocated block does: it traps, or the build
\* does anything else; either way the run is over
WildAccess ==
    /\ fault' \in {"segv", "ub"}
    /\ UNCHANGED <<buf, alloc, heap, caller, th>>

\* Buf::operator[] used for a store, _data[i] = v: no test of i against _len
Write(b, i, v) ==
    /\ Running
    /\ buf[b].live
    /\ IF InBlock(Cur, buf[b]._data, i)
       THEN /\ Set(store(Cur, b, i, v))
            /\ UNCHANGED <<caller, fault, th>>
       ELSE WildAccess

\* Buf::Buf(int len, Iter begin, Iter end) over the live buffers srcs
BufConcat(b, len, srcs) ==
    /\ Running
    /\ ~buf[b].live
    /\ NextAlloc(Cur) \in Allocs
    /\ \A i \in DOMAIN srcs :
          /\ buf[srcs[i]].live
          /\ buf[srcs[i]]._len > 0 => heap[buf[srcs[i]]._data.blk].st = "live"
    /\ \E bytes \in [1..len -> Byte] :
          LET r == Buf_concat(Cur, b, len, srcs, bytes)
          IN IF r.ok
             THEN /\ Set(r.P)
                  /\ UNCHANGED <<caller, fault, th>>
             ELSE /\ fault' \in {"assert", "ub"}
                  /\ UNCHANGED <<buf, alloc, heap, caller, th>>

\* Alloc::Alloc(int len) on its own
AllocCreate(a, len) ==
    /\ Running
    /\ a = NextAlloc(Cur)
    /\ \E bytes \in [1..len -> Byte] : Set(Alloc_new(Cur, a, len, bytes))
    /\ UNCHANGED <<caller, fault, th>>

\* Alloc::Alloc(void* data, int len) over the caller-managed memory
AllocWrap(a, len) ==
    /\ Running
    /\ a = NextAlloc(Cur)
    /\ heap[ExtBlock].st = "live"
    /\ Set(Alloc_wrap(Cur, a, [blk |-> ExtBlock, off |-> 0], len))
    /\ UNCHANGED <<caller, fault, th>>

\* Alloc::Alloc(const Alloc& other)
AllocDuplicate(a, other) ==
    /\ Running
    /\ a = NextAlloc(Cur)
    /\ alloc[other].st = "live"
    /\ alloc[other]._len > 0 => heap[alloc[other]._data.blk].st = "live"
    /\ Set(Alloc_copy(Cur, a, other))
    /\ UNCHANGED <<caller, fault, th>>

\* Alloc::detach on its own
AllocDetach(a) ==
    /\ Running
    /\ alloc[a].st = "live"
    /\ Set(Alloc_detach(Cur, a))
    /\ caller' = caller \cup {alloc[a]._data}
    /\ UNCHANGED <<fault, th>>

\* Alloc::~Alloc: delete[] _data whatever the Alloc was constructed from.
\* delete[] of memory that new[] did not return is undefined: the build frees
\* the caller's memory, or does anything else and the run is over
AllocDestroy(a) ==
    /\ Running
    /\ alloc[a].st = "live"
    /\ \/ /\ alloc[a]._data.blk # ExtBlock \/ heap[ExtBlock].st = "live"
          /\ Set(Alloc_dtor(Cur, a))
          /\ UNCHANGED <<caller, fault, th>>
       \/ /\ alloc[a]._data.blk = ExtBlock
          /\ fault' = "ub"
          /\ UNCHANGED <<buf, alloc, heap, caller, th>>

\* no Buf and no Alloc yet; the caller-managed memory exists
Empty ==
    [buf |-> [b \in Bufs |-> NoBuf],
     alloc |-> [a \in Allocs |-> NoAlloc],
     heap |-> [k \in Blocks |->
                 IF k = ExtBlock
                 THEN [st |-> "live", bytes |-> ExtBytes, frees |-> 0]
                 ELSE NoBlock]]

Start(P) == /\ buf = P.buf
            /\ alloc = P.alloc
            /\ heap = P.heap

Init ==
    /\ Start(Empty)
    /\ caller = {}
    /\ fault = "none"
    /\ th = [t \in Threads |-> Idle]

\* ---------------------------------------------------------------- threads
\* Each thread constructs and destroys the Buf objects of its own slots and may
\* copy from any slot, whatever its owner has done to it.  A slot is storage: it keeps what
\* was last stored in it, also before a Buf is constructed there and after it
\* is destroyed.  Its shared_ptr is two words, _alloc (the pointer that
\* _alloc-> follows) and _ref (the control block whose use_count is the
\* reference count); alloc[a] stands for Alloc a together with its control
\* block, whose counts are use_count and weak_count: st is "live" while both
\* exist, "disposed" once the Alloc is deleted and "dead" once the control
\* block is deleted too.  Every step below is one access to memory that
\* another thread may access, with the thread's reads of its own slot; nothing
\* in the code keeps the steps of two threads apart.  Where the code leaves
\* the order of two plain accesses to the build (the load of the second word
\* of other._alloc and the store of the first, the two stores of
\* Alloc::detach), a thread takes them in either order.

\* storage that holds zeros, and storage that holds anything else
ZeroSlot == [live |-> FALSE, _alloc |-> 0, _ref |-> 0, _data |-> NULL, _len |-> 0]

JunkSlot == [live |-> FALSE, _alloc |-> Wild, _ref |-> Wild,
             _data |-> WildPtr, _len |-> JunkLen]

\* the operations the threads have started
RECURSIVE StartedBy(_)
StartedBy(t) == IF t = 0 THEN 0 ELSE th[t].k + StartedBy(t - 1)

Started == StartedBy(NThreads)

\* thread t is back outside every operation
Done(t) == [Idle EXCEPT !.k = th[t].k]

\* thread t starts an operation on slot d
Enter(t, pc, d, s) == [Idle EXCEPT !.pc = pc, !.d = d, !.s = s, !.k = th[t].k + 1]

\* some thread is inside the copy construction that reads slot b
Copying(b) == \E t \in Threads : th[t].s = b

\* some thread is inside the copy construction of the Buf in slot b
UnderConstruction(b) == \E t \in Threads : th[t].d = b /\ th[t].s # 0

\* what the use of an object after it was deleted may do besides going on: a
\* trap, or the abort of a call through the dead object
UseAfterFree(gone) ==
    /\ gone
    /\ fault' \in {"segv", "abort"}
    /\ UNCHANGED <<buf, alloc, heap, caller, th>>

\* an access through the pointer a to the control block of Alloc a; go is what
\* the access does when the memory is there
ThroughRef(a, go) ==
    IF a = 0
    THEN NullDeref
    ELSE IF a \notin Allocs
         THEN WildAccess
         ELSE go \/ UseAfterFree(alloc[a].st = "dead")

\* an access through the pointer a to Alloc a
Through(a, go) ==
    IF a = 0
    THEN NullDeref
    ELSE IF a \notin Allocs
         THEN WildAccess
         ELSE go \/ UseAfterFree(alloc[a].st \in {"disposed", "dead"})

\* the Buf that Buf::Buf(int len) has made in slot b, with both words of its
\* _alloc and both counts of the control block of its Alloc a
Counted(P, b, a) ==
    [P EXCEPT !.buf[b] = [live |-> TRUE, _alloc |-> a, _ref |-> a,
                          _data |-> P.alloc[a]._data, _len |-> P.alloc[a]._len],
              !.alloc[a] = [st |-> "live", _data |-> P.alloc[a]._data,
                            _len |-> P.alloc[a]._len,
                            use_count |-> P.alloc[a].use_count,
                            weak_count |-> 1]]

\* Buf::Buf(int len) by thread t in one of its slots
MTBufLen(t, b, len) ==
    /\ Running
    /\ th[t].pc = "idle"
    /\ Started < MaxOps
    /\ owner(b) = t
    /\ ~buf[b].live
    /\ NextAlloc(Cur) \in Allocs
    /\ \E bytes \in [1..len -> Byte] :
          LET P1 == Buf_len(Cur, b, len, bytes)
              a == P1.buf[b]._alloc
          IN Set(Counted(P1, b, a))
    /\ th' = [th EXCEPT ![t].k = @ + 1]
    /\ UNCHANGED <<caller, fault>>

\* Buf::Buf(const Buf& other) by thread t in its slot d: the default
\* initialization of _alloc, the store of the null pointer
MTCopy(t, d, s) ==
    /\ Running
    /\ th[t].pc = "idle"
    /\ Started < MaxOps
    /\ owner(d) = t
    /\ ~buf[d].live
    /\ s # d
    /\ buf' = [buf EXCEPT ![d].live = TRUE, ![d]._alloc = 0]
    /\ th' = [th EXCEPT ![t] = Enter(t, "zero", d, s)]
    /\ UNCHANGED <<alloc, heap, caller, fault>>

\* the default initialization of _alloc, the store of the null control block
MTZeroRef(t) ==
    /\ Running
    /\ th[t].pc = "zero"
    /\ buf' = [buf EXCEPT ![th[t].d]._ref = 0]
    /\ th' = [th EXCEPT ![t].pc = "load_ptr"]
    /\ UNCHANGED <<alloc, heap, caller, fault>>

\* Buf::init, _alloc = other._alloc: the read of the pointer of other
MTLoadPtr(t) ==
    /\ Running
    /\ th[t].pc = "load_ptr"
    /\ th' = [th EXCEPT ![t].pc = "ptr_loaded", ![t].a = buf[th[t].s]._alloc]
    /\ UNCHANGED <<buf, alloc, heap, caller, fault>>

\* where the assignment of _alloc goes once the pointer is stored and the
\* control block r of other is read: nothing more is done when r is the
\* control block this Buf has, otherwise r is taken
AfterRef(t, r) ==
    IF r = buf[th[t].d]._ref
    THEN [th[t] EXCEPT !.pc = "load_data", !.a = 0, !.r = 0]
    ELSE [th[t] EXCEPT !.pc = "acquire", !.a = r, !.r = 0]

\* _alloc = other._alloc: the store of the pointer, before or after the read
\* of the control block of other
MTStorePtr(t) ==
    /\ Running
    /\ th[t].pc \in {"ptr_loaded", "store_ptr"}
    /\ buf' = [buf EXCEPT ![th[t].d]._alloc = th[t].a]
    /\ th' = IF th[t].pc = "ptr_loaded"
             THEN [th EXCEPT ![t].pc = "load_ref", ![t].a = 0]
             ELSE [th EXCEPT ![t] = AfterRef(t, th[t].r)]
    /\ UNCHANGED <<alloc, heap, caller, fault>>

\* _alloc = other._alloc: the read of the control block of other, after or
\* before the store of the pointer
MTLoadRef(t) ==
    /\ Running
    /\ th[t].pc \in {"ptr_loaded", "load_ref"}
    /\ LET r == buf[th[t].s]._ref
       IN th' = IF th[t].pc = "ptr_loaded"
                THEN [th EXCEPT ![t].pc = "store_ptr", ![t].r = r]
                ELSE [th EXCEPT ![t] = AfterRef(t, r)]
    /\ UNCHANGED <<buf, alloc, heap, caller, fault>>

\* _alloc = other._alloc: the atomic increment of the count that the control
\* block read holds
MTAcquire(t) ==
    /\ Running
    /\ th[t].pc = "acquire"
    /\ ThroughRef(th[t].a,
               /\ Set(sp_acquire(Cur, th[t].a))
               /\ th' = [th EXCEPT ![t].pc = "store_ref"]
               /\ UNCHANGED <<caller, fault>>)

\* _alloc = other._alloc: the store of the control block
MTStoreRef(t) ==
    /\ Running
    /\ th[t].pc = "store_ref"
    /\ buf' = [buf EXCEPT ![th[t].d]._ref = th[t].a]
    /\ th' = [th EXCEPT ![t].pc = "load_data", ![t].a = 0]
    /\ UNCHANGED <<alloc, heap, caller, fault>>

\* Buf::init, _data = other._data: the read
MTLoadData(t) ==
    /\ Running
    /\ th[t].pc = "load_data"
    /\ th' = [th EXCEPT ![t].pc = "store_data", ![t].p = buf[th[t].s]._data]
    /\ UNCHANGED <<buf, alloc, heap, caller, fault>>

\* _data = other._data: the store
MTStoreData(t) ==
    /\ Running
    /\ th[t].pc = "store_data"
    /\ buf' = [buf EXCEPT ![th[t].d]._data = th[t].p]
    /\ th' = [th EXCEPT ![t].pc = "load_len", ![t].p = NULL]
    /\ UNCHANGED <<alloc, heap, caller, fault>>

\* Buf::init, _len = other._len: the read
MTLoadLen(t) ==
    /\ Running
    /\ th[t].pc = "load_len"
    /\ th' = [th EXCEPT ![t].pc = "store_len", ![t].n = buf[th[t].s]._len]
    /\ UNCHANGED <<buf, alloc, heap, caller, fault>>

\* _len = other._len: the store, the end of the constructor
MTStoreLen(t) ==
    /\ Running
    /\ th[t].pc = "store_len"
    /\ buf' = [buf EXCEPT ![th[t].d]._len = th[t].n]
    /\ th' = [th EXCEPT ![t] = Done(t)]
    /\ UNCHANGED <<alloc, heap, caller, fault>>

\* Buf::~Buf, the release of _alloc: nothing for a null control block,
\* otherwise the one load of both counts
MTRelease(t, b) ==
    /\ Running
    /\ th[t].pc = "idle"
    /\ Started < MaxOps
    /\ owner(b) = t
    /\ buf[b].live
    /\ LET a == buf[b]._ref
       IN IF a = 0
          THEN /\ buf' = [buf EXCEPT ![b].live = FALSE]
               /\ th' = [th EXCEPT ![t].k = @ + 1]
               /\ UNCHANGED <<alloc, heap, caller, fault>>
          ELSE ThroughRef(a,
                  /\ buf' = [buf EXCEPT ![b].live = FALSE]
                  /\ th' = [th EXCEPT ![t] = [Enter(t, "drop", b, 0) EXCEPT
                                 !.a = a,
                                 !.seen = /\ alloc[a].use_count = 1
                                          /\ alloc[a].weak_count = 1]]
                  /\ UNCHANGED <<alloc, heap, caller, fault>>)

\* the release goes on: when both counts were loaded as 1, use_count is set to
\* 0 by a plain store (_M_weak_count = _M_use_count = 0); otherwise it is
\* decremented atomically, and the thread that decremented it from 1 goes on
\* to destroy the Alloc
MTDrop(t) ==
    /\ Running
    /\ th[t].pc = "drop"
    /\ LET a == th[t].a
       IN ThroughRef(a,
             /\ alloc' = [alloc EXCEPT ![a].use_count =
                             IF th[t].seen THEN 0 ELSE @ - 1]
             /\ th' = IF th[t].seen
                      THEN [th EXCEPT ![t].pc = "reload"]
                      ELSE IF alloc[a].use_count = 1
                           THEN [th EXCEPT ![t].pc = "dispose"]
                           ELSE [th EXCEPT ![t] = Done(t)]
             /\ UNCHANGED <<buf, heap, caller, fault>>)

\* _M_weak_count = _M_use_count = 0: the value that goes to weak_count, the
\* 0 that was stored to use_count, which the build has kept or reads back from
\* use_count
MTReload(t) ==
    /\ Running
    /\ th[t].pc = "reload"
    /\ ThroughRef(th[t].a,
          /\ \E v \in {0, alloc[th[t].a].use_count} :
                th' = [th EXCEPT ![t].pc = "drop_weak", ![t].n = v]
          /\ UNCHANGED <<buf, alloc, heap, caller, fault>>)

\* _M_weak_count = _M_use_count = 0: the plain store to weak_count
MTDropWeak(t) ==
    /\ Running
    /\ th[t].pc = "drop_weak"
    /\ ThroughRef(th[t].a,
          /\ alloc' = [alloc EXCEPT ![th[t].a].weak_count = th[t].n]
          /\ th' = [th EXCEPT ![t].pc = "dispose", ![t].n = 0]
          /\ UNCHANGED <<buf, heap, caller, fault>>)

\* the control block disposes of the Alloc: Alloc::~Alloc, delete[] _data,
\* the read of _data
MTDispose(t) ==
    /\ Running
    /\ th[t].pc = "dispose"
    /\ Through(th[t].a,
          /\ th' = [th EXCEPT ![t].pc = "free", ![t].p = alloc[th[t].a]._data]
          /\ UNCHANGED <<buf, alloc, heap, caller, fault>>)

\* what the allocator leaves in an Alloc that was deleted: the words it held,
\* its own word in place of _data, or its own in place of both
FreedAlloc(old) ==
    {old,
     [old EXCEPT !._data = WildPtr],
     [old EXCEPT !._data = WildPtr, !._len = JunkLen]}

\* what the allocator leaves in a control block that was deleted
FreedRef(old) ==
    {[old EXCEPT !.st = "dead"],
     [old EXCEPT !.st = "dead", !.use_count = JunkCount, !.weak_count = JunkCount]}

\* Alloc::~Alloc, delete[] of the pointer read.  delete[] of a block that is
\* freed already frees it a second time or is caught by the allocator;
\* delete[] of a pointer to no block stops the process
MTFree(t) ==
    /\ Running
    /\ th[t].pc = "free"
    /\ LET p == th[t].p
       IN \/ /\ p = NULL \/ p.blk \in Blocks
             /\ Set(delete(Cur, p))
             /\ th' = [th EXCEPT ![t].pc = "delete", ![t].p = NULL]
             /\ UNCHANGED <<caller, fault>>
          \/ /\ \/ p.blk \notin Blocks \cup {0}
                \/ p.blk \in Blocks /\ heap[p.blk].st = "freed"
             /\ fault' \in {"segv", "abort"}
             /\ UNCHANGED <<buf, alloc, heap, caller, th>>

\* after Alloc::~Alloc has returned: the delete of the Alloc object; the
\* delete of one that is deleted already goes through or is caught by the
\* allocator
MTDeleteAlloc(t) ==
    /\ Running
    /\ th[t].pc = "delete"
    /\ LET a == th[t].a
       IN \/ /\ \E al \in FreedAlloc(alloc[a]) :
                   alloc' = [alloc EXCEPT ![a] =
                               [al EXCEPT !.st = IF @ = "live"
                                                 THEN "disposed" ELSE @]]
             /\ th' = [th EXCEPT ![t].pc = IF th[t].seen THEN "destroy"
                                           ELSE "release_weak"]
             /\ UNCHANGED <<buf, heap, caller, fault>>
          \/ UseAfterFree(alloc[a].st \in {"disposed", "dead"})

\* after the atomic decrement of use_count from 1 and the disposal: the atomic
\* decrement of weak_count; the thread that decremented it from 1 deletes the
\* control block
MTReleaseWeak(t) ==
    /\ Running
    /\ th[t].pc = "release_weak"
    /\ ThroughRef(th[t].a,
          /\ alloc' = [alloc EXCEPT ![th[t].a].weak_count = @ - 1]
          /\ th' = IF alloc[th[t].a].weak_count = 1
                   THEN [th EXCEPT ![t].pc = "destroy"]
                   ELSE [th EXCEPT ![t] = Done(t)]
          /\ UNCHANGED <<buf, heap, caller, fault>>)

\* the delete of the control block
MTDestroy(t) ==
    /\ Running
    /\ th[t].pc = "destroy"
    /\ \/ /\ \E al \in FreedRef(alloc[th[t].a]) :
                alloc' = [alloc EXCEPT ![th[t].a] = al]
          /\ th' = [th EXCEPT ![t] = Done(t)]
          /\ UNCHANGED <<buf, heap, caller, fault>>
       \/ UseAfterFree(alloc[th[t].a].st = "dead")

\* the caller's check before detaching, if (buf.unique_alloc()) ...: the read
\* of the count, 0 for a null control block
MTCheck(t, b) ==
    /\ Running
    /\ th[t].pc = "idle"
    /\ Started < MaxOps
    /\ owner(b) = t
    /\ buf[b].live
    /\ LET a == buf[b]._ref
       IN IF a = 0
          THEN /\ th' = [th EXCEPT ![t] = Enter(t, "checked", b, 0)]
               /\ UNCHANGED <<buf, alloc, heap, caller, fault>>
          ELSE ThroughRef(a,
                  /\ th' = [th EXCEPT ![t] = [Enter(t, "checked", b, 0) EXCEPT
                                                 !.seen = alloc[a].use_count = 1]]
                  /\ UNCHANGED <<buf, alloc, heap, caller, fault>>)

\* ... buf.detach_alloc(), after the check said the Alloc is unique:
\* _alloc->detach(), uint8_t* data = _data
MTDetach(t) ==
    /\ Running
    /\ th[t].pc = "checked"
    /\ th[t].seen
    /\ LET a == buf[th[t].d]._alloc
       IN Through(a,
             /\ th' = [th EXCEPT ![t].pc = "detach", ![t].a = a,
                                 ![t].p = alloc[a]._data,
                                 ![t].held = alloc[a].use_count]
             /\ UNCHANGED <<buf, alloc, heap, caller, fault>>)

\* a detach that leaves the pointer while the Alloc is shared
Alloc_detach_data_if_unique(P, a) ==
    IF P.alloc[a].use_count = 1 THEN [P EXCEPT !.alloc[a]._data = NULL] ELSE P

\* Alloc::detach: _data = NULL
Alloc_detach_data(P, a) == [P EXCEPT !.alloc[a]._data = NULL]

\* Alloc::detach: _len = 0
Alloc_detach_len(P, a) == [P EXCEPT !.alloc[a]._len = 0]

\* Alloc::detach, _data = NULL, before or after the store of _len; return
\* data once both stores are done
MTDetachData(t) ==
    /\ Running
    /\ th[t].pc \in {"detach", "detach_data"}
    /\ Through(th[t].a,
          /\ Set(Alloc_detach_data(Cur, th[t].a))
          /\ IF th[t].pc = "detach"
             THEN /\ th' = [th EXCEPT ![t].pc = "detach_len"]
                  /\ caller' = caller
             ELSE /\ th' = [th EXCEPT ![t].pc = "detached", ![t].p = NULL]
                  /\ caller' = caller \cup {th[t].p}
          /\ UNCHANGED fault)

\* Alloc::detach, _len = 0, after or before the store of _data; return data
\* once both stores are done
MTDetachLen(t) ==
    /\ Running
    /\ th[t].pc \in {"detach", "detach_len"}
    /\ Through(th[t].a,
          /\ Set(Alloc_detach_len(Cur, th[t].a))
          /\ IF th[t].pc = "detach"
             THEN /\ th' = [th EXCEPT ![t].pc = "detach_data"]
                  /\ caller' = caller
             ELSE /\ th' = [th EXCEPT ![t].pc = "detached", ![t].p = NULL]
                  /\ caller' = caller \cup {th[t].p}
          /\ UNCHANGED fault)

\* the caller's code after the check, or after the detach
MTReturn(t) ==
    /\ Running
    /\ \/ th[t].pc = "checked" /\ ~th[t].seen
       \/ th[t].pc = "detached"
    /\ th' = [th EXCEPT ![t] = Done(t)]
    /\ UNCHANGED <<buf, alloc, heap, caller, fault>>

\* ---------------------------------------------------------------- specifications
\* the allocating constructors, copies and destruction
Life ==
    \/ \E b \in Bufs, len \in Lens : BufLen(b, len)
    \/ \E b \in Bufs, len \in Lens, fill \in Byte : BufFill(b, len, fill)
    \/ \E b \in Bufs, other \in Bufs : BufCopy(b, other)
    \/ \E b \in Bufs, other \in Bufs : Assign(b, other)
    \/ \E b \in Bufs : Destroy(b)

\* construction, copying, assignment, destruction, slice and reset of owning,
\* default and borrowing buffers; no detach_alloc
Next ==
    \/ Life
    \/ \E b \in Bufs : BufDefault(b)
    \/ \E b \in Bufs, len \in 0..ExtLen : BufWrap(b, len)
    \/ \E b \in Bufs, other \in Bufs, offset \in SliceArgs, len \in SliceArgs :
          BufCopySlice(b, other, offset, len)
    \/ \E b \in Bufs, offset \in SliceArgs, len \in SliceArgs : Slice(b, offset, len)
    \/ \E b \in Bufs : Reset(b)

Spec == Init /\ [][Next]_vars

\* owning buffers that are copied, sliced and written through; no detach_alloc
NextWrite ==
    \/ Life
    \/ \E b \in Bufs, other \in Bufs, offset \in SliceArgs, len \in SliceArgs :
          BufCopySlice(b, other, offset, len)
    \/ \E b \in Bufs, offset \in SliceArgs, len \in SliceArgs : Slice(b, offset, len)
    \/ \E b \in Bufs, i \in WriteArgs, v \in Byte : Write(b, i, v)

SpecWrite == Init /\ [][NextWrite]_vars

\* owning and default buffers with slice, reset and detach_alloc
NextDetach ==
    \/ Life
    \/ \E b \in Bufs : BufDefault(b)
    \/ \E b \in Bufs, offset \in NearArgs, len \in NearArgs : Slice(b, offset, len)
    \/ \E b \in Bufs : Reset(b)
    \/ \E b \in Bufs : DetachAlloc(b)

SpecDetach == Init /\ [][NextDetach]_vars

\* owning, default and borrowing buffers with every operation that may or may
\* not change whether a buffer holds an Alloc
NextKind ==
    \/ \E b \in Bufs, len \in Lens, fill \in Byte : BufFill(b, len, fill)
    \/ \E b \in Bufs : BufDefault(b)
    \/ \E b \in Bufs, len \in 0..ExtLen : BufWrap(b, len)
    \/ \E b \in Bufs, other \in Bufs : BufCopy(b, other)
    \/ \E b \in Bufs, other \in Bufs, offset \in NearArgs, len \in NearArgs :
          BufCopySlice(b, other, offset, len)
    \/ \E b \in Bufs, other \in Bufs : Assign(b, other)
    \/ \E b \in Bufs : Destroy(b)
    \/ \E b \in Bufs, offset \in NearArgs, len \in NearArgs : Slice(b, offset, len)
    \/ \E b \in Bufs : Reset(b)
    \/ \E b \in Bufs : DetachAlloc(b)

SpecKind == Init /\ [][NextKind]_vars

\* class Alloc on its own: the three ways to construct one, detach, destruction
NextOfAlloc ==
    \/ \E a \in Allocs, len \in Lens : AllocCreate(a, len)
    \/ \E a \in Allocs, len \in 0..ExtLen : AllocWrap(a, len)
    \/ \E a \in Allocs, other \in Allocs : AllocDuplicate(a, other)
    \/ \E a \in Allocs : AllocDetach(a)
    \/ \E a \in Allocs : AllocDestroy(a)

SpecAlloc == Init /\ [][NextOfAlloc]_vars

\* the concat constructor over owning and borrowing sources
NextConcat ==
    \/ \E b \in Bufs, len \in Lens, fill \in Byte : BufFill(b, len, fill)
    \/ \E b \in Bufs, len \in 0..ExtLen : BufWrap(b, len)
    \/ \E b \in Bufs, offset \in NearArgs, len \in NearArgs : Slice(b, offset, len)
    \/ \E b \in Bufs : Destroy(b)
    \/ \E b \in Bufs, len \in 0..MaxCat, srcs \in SeqUpTo(Bufs, MaxSrc) :
          BufConcat(b, len, srcs)

SpecConcat == Init /\ [][NextConcat]_vars

\* threads start with one owning buffer of len bytes, held by slot 1; the
\* storage of the other slots holds zeros or anything else
InitThreads(len, bytes) ==
    /\ \E rest \in {ZeroSlot, JunkSlot} :
          LET P1 == Counted(Buf_len(Empty, 1, len, bytes), 1, 1)
          IN Start([P1 EXCEPT !.buf = [b \in Bufs |->
                                         IF b = 1 THEN P1.buf[1] ELSE rest]])
    /\ caller = {}
    /\ fault = "none"
    /\ th = [t \in Threads |-> Idle]

InitMT == \E len \in Lens : \E bytes \in [1..len -> Byte] : InitThreads(len, bytes)

\* the buffer the threads race for has MaxLen bytes; no step of a thread
\* looks at what they hold
InitRace == InitThreads(MaxLen, [i \in 1..MaxLen |-> 0])

\* threads that copy-construct and destroy buffers sharing the Alloc, no two of
\* them inside operations on the same Buf object at once: a thread copies from
\* a Buf that is constructed and destroys a Buf no thread is copying from
NextMT ==
    \/ \E t \in Threads, b \in Bufs, len \in Lens : MTBufLen(t, b, len)
    \/ \E t \in Threads, d \in Bufs,
          s \in {x \in Bufs : buf[x].live /\ ~UnderConstruction(x)} : MTCopy(t, d, s)
    \/ \E t \in Threads, b \in {x \in Bufs : ~Copying(x)} : MTRelease(t, b)
    \/ \E t \in Threads : MTZeroRef(t)
    \/ \E t \in Threads : MTLoadPtr(t)
    \/ \E t \in Threads : MTStorePtr(t)
    \/ \E t \in Threads : MTLoadRef(t)
    \/ \E t \in Threads : MTAcquire(t)
    \/ \E t \in Threads : MTStoreRef(t)
    \/ \E t \in Threads : MTLoadData(t)
    \/ \E t \in Threads : MTStoreData(t)
    \/ \E t \in Threads : MTLoadLen(t)
    \/ \E t \in Threads : MTStoreLen(t)
    \/ \E t \in Threads : MTDrop(t)
    \/ \E t \in Threads : MTReload(t)
    \/ \E t \in Threads : MTDropWeak(t)
    \/ \E t \in Threads : MTDispose(t)
    \/ \E t \in Threads : MTFree(t)
    \/ \E t \in Threads : MTDeleteAlloc(t)
    \/ \E t \in Threads : MTReleaseWeak(t)
    \/ \E t \in Threads : MTDestroy(t)

SpecMT == InitMT /\ [][NextMT]_vars

\* threads that copy and destroy the buffers of the one Alloc under every
\* schedule, each of which may also check unique_alloc and then detach
NextRace ==
    \/ \E t \in Threads, d \in Bufs, s \in Bufs : MTCopy(t, d, s)
    \/ \E t \in Threads, b \in Bufs : MTRelease(t, b)
    \/ \E t \in Threads : MTZeroRef(t)
    \/ \E t \in Threads : MTLoadPtr(t)
    \/ \E t \in Threads : MTStorePtr(t)
    \/ \E t \in Threads : MTLoadRef(t)
    \/ \E t \in Threads : MTAcquire(t)
    \/ \E t \in Threads : MTStoreRef(t)
    \/ \E t \in Threads : MTLoadData(t)
    \/ \E t \in Threads : MTStoreData(t)
    \/ \E t \in Threads : MTLoadLen(t)
    \/ \E t \in Threads : MTStoreLen(t)
    \/ \E t \in Threads : MTDrop(t)
    \/ \E t \in Threads : MTReload(t)
    \/ \E t \in Threads : MTDropWeak(t)
    \/ \E t \in Threads : MTDispose(t)
    \/ \E t \in Threads : MTFree(t)
    \/ \E t \in Threads : MTDeleteAlloc(t)
    \/ \E t \in Threads : MTReleaseWeak(t)
    \/ \E t \in Threads : MTDestroy(t)
    \/ \E t \in Threads, b \in Bufs : MTCheck(t, b)
    \/ \E t \in Threads : MTDetach(t)
    \/ \E t \in Threads : MTDetachData(t)
    \/ \E t \in Threads : MTDetachLen(t)
    \/ \E t \in Threads : MTReturn(t)

SpecRace == InitRace /\ [][NextRace]_vars

\* ---------------------------------------------------------------- claims
\* the live Buf objects that hold Alloc a
Holders(a) == {b \in Bufs : buf[b].live /\ buf[b]._alloc = a}

\* the block Alloc a was created with
BlockOf(a) == [blk |-> a, off |-> 0]

\* detach_alloc has handed the block of Alloc a to the caller
Detached(a) == BlockOf(a) \in caller

\* the byte at index j of the view of buffer b
At(b, j) == Mem(Cur, buf[b]._data, j)

Max(x, y) == IF x > y THEN x ELSE y

\* C1: without detach_alloc, the block of every Alloc that was created has been
\* freed exactly once when no live Buf holds the Alloc, and not at all while
\* some live Buf holds it: it is freed at the step that removes the last holder.
C1_FreedWithLastHolder ==
    \A a \in Allocs :
        alloc[a].st # "none" =>
            /\ heap[a].frees = (IF Holders(a) = {} THEN 1 ELSE 0)
            /\ heap[a].st = (IF Holders(a) = {} THEN "freed" ELSE "live")
            /\ alloc[a].st = (IF Holders(a) = {} THEN "dead" ELSE "live")

\* one Alloc has lost its last holder and is freed while another is still
\* shared by two buffers
C1_Witness ==
    \E a \in Allocs, c \in Allocs :
        /\ alloc[a].st = "dead" /\ heap[a].frees = 1
        /\ Cardinality(Holders(c)) >= 2 /\ heap[c].frees = 0

\* the condition of C2 on one step
C2_Step ==
    /\ \A d \in Bufs, s \in Bufs :
          ( /\ buf[s].live
            /\ buf[s]._alloc # 0
            /\ buf'[d].live
            /\ buf'[d] # buf[d]
            /\ \/ BufCopy(d, s)
               \/ Assign(d, s)
               \/ \E offset \in SliceArgs, len \in SliceArgs :
                     BufCopySlice(d, s, offset, len) )
          => /\ buf'[d]._alloc = buf[s]._alloc
             /\ buf'[d]._data.blk = buf[s]._data.blk
             /\ buf'[d]._data.off >= buf[s]._data.off
             /\ buf'[d]._data.off + buf'[d]._len <= buf[s]._data.off + buf[s]._len
             /\ heap'[buf[s]._data.blk] = heap[buf[s]._data.blk]
             /\ \A k \in Blocks : heap[k].st = "unalloc" => heap'[k].st = "unalloc"
    /\ \A w \in Bufs, i \in WriteArgs, v \in Byte :
          (heap' # heap /\ buf' = buf /\ Write(w, i, v)) =>
             \A r \in Bufs, j \in 0..(MaxCat - 1) :
                ( /\ buf[r].live
                  /\ buf[r]._alloc # 0
                  /\ buf[r]._alloc = buf[w]._alloc
                  /\ j < buf[r]._len
                  /\ buf[r]._data.off + j = buf[w]._data.off + i )
                => At(r, j)' = v

\* C2: a copy, a sliced copy and an assignment from an owning buffer share its
\* Alloc and its block without allocating or copying bytes, and a byte stored
\* through one view is the byte read through every other view of the same
\* Alloc at the position that has the same address.
C2_CopySharesAlloc == [][C2_Step]_vars

\* two distinct live buffers hold the same Alloc and read the stored byte 1
\* at the same address
C2_Witness ==
    \E w \in Bufs, r \in Bufs :
        /\ w # r
        /\ buf[w].live /\ buf[r].live
        /\ buf[w]._alloc # 0 /\ buf[w]._alloc = buf[r]._alloc
        /\ buf[w]._len > 0 /\ buf[r]._len > 0
        /\ buf[w]._data = buf[r]._data
        /\ At(w, 0) = 1 /\ At(r, 0) = 1

\* C3: in every reachable state, for every live buffer with a view of length
\* L >= 0 and every offset and len, slice(offset, len) advances the data
\* pointer by o = min(max(offset, 0), L), sets the length to
\* min(max(len, 0), L - o), and changes nothing else; offset < 0 behaves as
\* offset = 0, offset > L gives length 0, the length never exceeds
\* min(max(len, 0), L - o), and a negative len gives length 0.
C3_SliceClamps ==
    \A b \in Bufs, offset \in SliceArgs, len \in SliceArgs :
        (buf[b].live /\ buf[b]._len >= 0) =>
            LET L == buf[b]._len
                o == min(Max(offset, 0), L)
                R == slice(Cur, b, offset, len)
            IN /\ R.buf[b]._data = PtrAdd(buf[b]._data, o)
               /\ R.buf[b]._len = min(Max(len, 0), L - o)
               /\ R.buf[b]._len <= min(Max(len, 0), L - o)
               /\ (len >= 0 => R.buf[b]._len <= min(len, L - o))
               /\ (len < 0 => R.buf[b]._len = 0)
               /\ (offset < 0 => R = slice(Cur, b, 0, len))
               /\ (offset > L => R.buf[b]._len = 0)
               /\ R = [Cur EXCEPT !.buf[b]._data = R.buf[b]._data,
                                  !.buf[b]._len = R.buf[b]._len]

\* a borrowing view has been sliced to the end of the wrapped memory, an
\* owning view to the end of its block, and a third buffer has a nonempty
\* view, which slice with a negative len makes empty: its length 0 exceeds len
C3_Witness ==
    /\ \E b \in Bufs :
          /\ buf[b].live
          /\ buf[b]._data = [blk |-> ExtBlock, off |-> ExtLen]
          /\ buf[b]._len = 0
    /\ \E b \in Bufs :
          /\ buf[b].live /\ buf[b]._alloc # 0
          /\ buf[b]._data.off = 1
    /\ \E b \in Bufs :
          /\ buf[b].live /\ buf[b]._len > 0
          /\ slice(Cur, b, 0, 0 - 1).buf[b]._len = 0
          /\ slice(Cur, b, 0, 0 - 1).buf[b]._len > min(0 - 1, buf[b]._len)

\* C3 as specified: slice advances the data pointer by
\* o = min(max(offset, 0), L), sets the length to min(max(len, 0), L - o),
\* offset < 0 behaves as offset = 0, offset > L gives length 0, and the
\* resulting length never exceeds min(len, L - o), for every len, negative
\* ones included.
C3_SliceNeverExceedsLen ==
    \A b \in Bufs, offset \in SliceArgs, len \in SliceArgs :
        (buf[b].live /\ buf[b]._len >= 0) =>
            LET L == buf[b]._len
                o == min(Max(offset, 0), L)
                R == slice(Cur, b, offset, len)
            IN /\ R.buf[b]._data = PtrAdd(buf[b]._data, o)
               /\ R.buf[b]._len = min(Max(len, 0), L - o)
               /\ (offset < 0 => R = slice(Cur, b, 0, len))
               /\ (offset > L => R.buf[b]._len = 0)
               /\ R.buf[b]._len <= min(len, L - o)

\* C4: without detach_alloc, the view of every buffer that holds an Alloc has
\* a length >= 0 and lies inside the block of its Alloc.
C4_ViewInsideAlloc ==
    \A b \in Bufs :
        (buf[b].live /\ buf[b]._alloc # 0) =>
            LET al == alloc[buf[b]._alloc]
            IN /\ al.st = "live"
               /\ 0 <= buf[b]._len
               /\ buf[b]._data.blk = al._data.blk
               /\ al._data.off <= buf[b]._data.off
               /\ buf[b]._data.off + buf[b]._len <= al._data.off + al._len

\* one holder of an Alloc of length 1 has been sliced to its end while another
\* holder views all of it
C4_Witness ==
    \E b \in Bufs, c \in Bufs :
        /\ buf[b].live /\ buf[c].live
        /\ buf[b]._alloc # 0 /\ buf[b]._alloc = buf[c]._alloc
        /\ buf[b]._data.off = 1 /\ buf[b]._len = 0
        /\ buf[c]._data.off = 0 /\ buf[c]._len = 1

\* the condition of C5 on one step
C5_Step ==
    /\ \A b \in Bufs :
          (buf[b].live /\ unique_alloc(Cur, b) /\ buf' = buf /\ DetachAlloc(b)) =>
             LET a == buf[b]._alloc
             IN /\ fault' = "none"
                /\ caller' = caller \cup {alloc[a]._data}
                /\ alloc'[a]._data = NULL
                /\ alloc'[a]._len = 0
                /\ alloc'[a].st = "live"
                /\ heap' = heap
    /\ \A b \in Bufs :
          ( /\ buf[b].live /\ ~buf'[b].live
            /\ unique_alloc(Cur, b) /\ Detached(buf[b]._alloc)
            /\ Destroy(b) ) =>
             /\ alloc'[buf[b]._alloc].st = "dead"
             /\ heap' = heap
    /\ \A p \in caller :
          p # NULL =>
             /\ heap[p.blk].st = "live"
             /\ heap[p.blk].frees = 0
             /\ heap'[p.blk] = heap[p.blk]

\* C5: detach_alloc on the only holder of an Alloc hands the Alloc's block
\* pointer to the caller and leaves the Alloc with null data and length 0
\* without touching memory; no later step, the destruction of that buffer and
\* of its Alloc included, frees or changes a block the caller was handed.
C5_DetachUnique == [][C5_Step]_vars

\* the caller holds the block of an Alloc that has been destroyed, and the
\* block is allocated, never freed, and has its byte
C5_Witness ==
    \E a \in Allocs :
        /\ Detached(a)
        /\ alloc[a].st = "dead"
        /\ heap[a].st = "live"
        /\ heap[a].frees = 0
        /\ heap[a].bytes = <<1>>

\* C6: unique_alloc() is true exactly for a buffer that holds an Alloc no other
\* live buffer holds; it is false, without failing, for a buffer with no Alloc.
C6_UniqueIffSoleHolder ==
    \A b \in Bufs :
        buf[b].live =>
            unique_alloc(Cur, b) =
                (buf[b]._alloc # 0 /\ Holders(buf[b]._alloc) = {b})

\* one buffer is the only holder of its Alloc, two others share an Alloc or
\* hold none, and an earlier Alloc has been given up
C6_Witness ==
    \E b \in Bufs, c \in Bufs, d \in Bufs :
        /\ buf[b].live /\ buf[c].live /\ buf[d].live
        /\ unique_alloc(Cur, b)
        /\ c # d /\ buf[c]._alloc # 0 /\ buf[c]._alloc = buf[d]._alloc
        /\ ~unique_alloc(Cur, c) /\ ~unique_alloc(Cur, d)

\* the Alloc that the detach of thread t works on
DetachOf(t) == IF th[t].pc = "checked" THEN buf[th[t].d]._alloc ELSE th[t].a

\* the condition of C7 on one step
C7_Step ==
    \A t \in Threads :
        ( /\ th[t].pc \in {"checked", "detach", "detach_data", "detach_len"}
          /\ th'[t].pc \in {"detach", "detach_data", "detach_len", "detached"}
          /\ th'[t].pc # th[t].pc
          /\ DetachOf(t) \in Allocs
          /\ alloc[DetachOf(t)].st = "live"
          /\ alloc[DetachOf(t)].use_count >= 2
          /\ (MTDetach(t) \/ MTDetachData(t) \/ MTDetachLen(t)) ) =>
            LET a == DetachOf(t)
            IN /\ th[t].seen
               /\ fault' = "none"
               /\ buf' = buf
               /\ heap' = heap
               /\ alloc'[a].use_count = alloc[a].use_count
               /\ th[t].pc = "checked" =>
                     /\ alloc' = alloc
                     /\ th'[t].p = alloc[a]._data
                     /\ th'[t].held >= 2
                     /\ caller' = caller
               /\ th[t].pc # "checked" =>
                     /\ \/ alloc' = [alloc EXCEPT ![a]._data = NULL]
                        \/ alloc' = [alloc EXCEPT ![a]._len = 0]
                     /\ caller' = IF th'[t].pc = "detached"
                                  THEN caller \cup {th[t].p}
                                  ELSE caller
               /\ th'[t].pc = "detached" =>
                     /\ alloc'[a]._data = NULL
                     /\ alloc'[a]._len = 0

\* C7: the check and the detach are separate steps: when a thread that has
\* seen unique_alloc() == true detaches while the Alloc has meanwhile got a
\* second reference, detach_alloc is not refused; it reads the pointer,
\* stores null data and length 0 in the Alloc (in either order) and hands the
\* pointer out, and every buffer, the other holders included, keeps its view.
C7_DetachRacesCopy == [][C7_Step]_vars

\* thread t saw its buffer unique, the other thread u then took a second
\* reference with the one operation it has started, a copy construction that
\* is complete, and t then entered detach_alloc (the Alloc was held twice at
\* that moment) and has detached: the buffer of u holds the Alloc with a view
\* of nonzero length, and the Alloc reports null data and length 0
C7_Witness ==
    \E t \in Threads, b \in Bufs :
        /\ th[t].pc = "detached"
        /\ th[t].seen
        /\ th[t].held = 2
        /\ th[t].k = 1
        /\ owner(b) # t
        /\ th[owner(b)].pc = "idle"
        /\ th[owner(b)].k = 1
        /\ buf[b].live
        /\ buf[b]._alloc = th[t].a
        /\ buf[b]._ref = th[t].a
        /\ buf[b]._len > 0
        /\ buf[b]._data = BlockOf(th[t].a)
        /\ buf[th[t].d]._data = buf[b]._data
        /\ BlockOf(th[t].a) \in caller
        /\ alloc[th[t].a].st = "live"
        /\ alloc[th[t].a]._data = NULL
        /\ alloc[th[t].a]._len = 0
        /\ alloc[th[t].a].use_count = 2
        /\ heap[th[t].a].st = "live"

\* the member _alloc of the Buf in slot b has been initialized
HasAlloc(b) ==
    buf[b].live /\ ~\E t \in Threads : th[t].d = b /\ th[t].pc = "zero"

\* the references to Alloc a that are taken and not given back: a Buf whose
\* _alloc counts on a, a copy construction between its increment and the
\* store into the new Buf, and a destruction before its decrement
Refs(a) ==
    Cardinality({b \in Bufs : HasAlloc(b) /\ buf[b]._ref = a})
    + Cardinality({t \in Threads : th[t].a = a /\ th[t].pc \in {"store_ref", "drop"}})

\* C8: under every interleaving of the steps of threads that copy-construct
\* and destroy their own buffers, the count of an Alloc is the number of
\* references its buffers hold (the number of live buffers that hold it when
\* no thread is inside a constructor or destructor), its block is not freed
\* while a reference is held, the thread that gave back the last reference is
\* the one that frees the block and destroys the Alloc, a destroyed Alloc has
\* no holder, the block is freed at most once and exactly once when the Alloc
\* is destroyed, and nothing stops the process.
C8_CountIsHolders ==
    /\ fault = "none"
    /\ \A a \in Allocs :
        /\ alloc[a].st = "live" =>
              /\ alloc[a].use_count = Refs(a)
              /\ (\A t \in Threads : th[t].pc = "idle") =>
                    alloc[a].use_count =
                       Cardinality({b \in Bufs : buf[b].live /\ buf[b]._alloc = a})
              /\ Refs(a) > 0 => heap[a].st = "live" /\ heap[a].frees = 0
              /\ Refs(a) = 0 =>
                    \E t \in Threads :
                        /\ th[t].a = a
                        /\ th[t].pc \in {"reload", "drop_weak", "dispose",
                                          "free", "delete"}
                        /\ IF th[t].pc = "delete"
                           THEN heap[a].st = "freed" /\ heap[a].frees = 1
                           ELSE heap[a].st = "live" /\ heap[a].frees = 0
        /\ alloc[a].st \in {"disposed", "dead"} =>
              /\ Refs(a) = 0
              /\ heap[a].st = "freed"
              /\ heap[a].frees = 1
              /\ alloc[a].st = "disposed" =>
                    \E t \in Threads :
                        th[t].pc \in {"release_weak", "destroy"} /\ th[t].a = a

\* two threads are inside copy constructions that have both incremented the
\* count of the same Alloc, which one buffer holds, and an earlier Alloc has
\* been destroyed and freed
C8_Witness ==
    \E t \in Threads, u \in Threads :
        /\ t # u
        /\ th[t].pc = "store_ref" /\ th[u].pc = "store_ref"
        /\ th[t].a = th[u].a
        /\ alloc[th[t].a].use_count = 3
        /\ \E c \in Allocs : alloc[c].st = "dead" /\ heap[c].frees = 1

\* the condition of C9 on one step
C9_Step ==
    \A b \in Bufs :
        ( /\ buf[b].live
          /\ buf[b]._alloc # 0
          /\ buf'[b] # buf[b]
          /\ Reset(b) ) =>
            LET a == buf[b]._alloc
            IN /\ fault' = "none"
               /\ buf' = [buf EXCEPT ![b]._data = alloc[a]._data,
                                     ![b]._len = alloc[a]._len]
               /\ ~Detached(a) =>
                     /\ buf'[b]._data = BlockOf(a)
                     /\ buf'[b]._len = Len(heap[a].bytes)
               /\ Detached(a) =>
                     /\ buf'[b]._data = NULL
                     /\ buf'[b]._len = 0
               /\ alloc' = alloc /\ heap' = heap /\ caller' = caller

\* C9: reset() on a buffer that holds an Alloc sets the view to the Alloc's
\* current data pointer and length and changes nothing else: the whole block
\* while the Alloc has not been detached, null and 0 after detach_alloc.
C9_ResetToCurrentExtent == [][C9_Step]_vars

\* one holder of a detached Alloc has been reset to a null, zero-length view
\* while another still has the view of length 1 it had before the detach
C9_Witness ==
    \E b \in Bufs, c \in Bufs :
        /\ buf[b].live /\ buf[c].live
        /\ buf[b]._alloc # 0 /\ buf[b]._alloc = buf[c]._alloc
        /\ Detached(buf[b]._alloc)
        /\ buf[b]._data = NULL /\ buf[b]._len = 0
        /\ buf[c]._data = BlockOf(buf[c]._alloc) /\ buf[c]._len = 1

\* the bytes of the views of the buffers srcs, one after the other
RECURSIVE CatViews(_, _)
CatViews(srcs, i) ==
    IF i > Len(srcs)
    THEN << >>
    ELSE [j \in 1..buf[srcs[i]]._len |-> At(srcs[i], j - 1)] \o CatViews(srcs, i + 1)

RECURSIVE SumLen(_, _)
SumLen(srcs, i) ==
    IF i > Len(srcs) THEN 0 ELSE buf[srcs[i]]._len + SumLen(srcs, i + 1)

\* the condition of C10 on one step
C10_Step ==
    \A b \in Bufs :
        (~buf[b].live /\ buf'[b].live /\ buf'[b]._alloc # 0) =>
            \A len \in 0..MaxCat, srcs \in SeqUpTo(Bufs, MaxSrc) :
                ( /\ \A i \in DOMAIN srcs : buf[srcs[i]].live
                  /\ SumLen(srcs, 1) = len
                  /\ BufConcat(b, len, srcs) ) =>
                    LET a == NextAlloc(Cur)
                    IN /\ fault' = "none"
                       /\ buf' = [buf EXCEPT ![b] =
                                    [live |-> TRUE, _alloc |-> a,
                                     _data |-> BlockOf(a), _len |-> len]]
                       /\ alloc' = [alloc EXCEPT ![a] =
                                      [st |-> "live", _data |-> BlockOf(a),
                                       _len |-> len, use_count |-> 1]]
                       /\ heap' = [heap EXCEPT ![a] =
                                     [st |-> "live", bytes |-> CatViews(srcs, 1),
                                      frees |-> 0]]
                       /\ caller' = caller

\* C10: when the lengths of the sources sum to len, the concat constructor
\* does not fail and makes the new buffer the only holder of a fresh Alloc of
\* len bytes that are the bytes of the sources' views in order; the sources,
\* every other buffer, Alloc and block are unchanged.
C10_ConcatCopiesInOrder == [][C10_Step]_vars

\* a buffer holds a two-byte Alloc with the bytes 1, 0, made from a one-byte
\* source that reads 1 followed by a one-byte source that reads 0, both alive
C10_Witness ==
    \E b \in Bufs, x \in Bufs, y \in Bufs :
        /\ buf[b].live /\ buf[x].live /\ buf[y].live
        /\ buf[b]._alloc # 0
        /\ buf[b]._len = 2
        /\ At(b, 0) = 1 /\ At(b, 1) = 0
        /\ buf[x]._len = 1 /\ At(x, 0) = 1
        /\ buf[y]._len = 1 /\ At(y, 0) = 0

\* the condition of C11 on one step
C11_Step ==
    \A b \in Bufs :
        ~buf[b].live =>
            \A len \in 0..MaxCat, srcs \in SeqUpTo(Bufs, MaxSrc) :
                ( /\ \A i \in DOMAIN srcs : buf[srcs[i]].live
                  /\ SumLen(srcs, 1) # len
                  /\ BufConcat(b, len, srcs) ) =>
                    /\ fault' # "none"
                    /\ buf' = buf

\* C11: whenever the lengths of the sources do not sum to len, in either
\* direction, the concat constructor stops the process and returns no buffer.
C11_ConcatMismatchAlwaysFatal == [][C11_Step]_vars

\* C12: for all live buffers a and b, a.same(b) is true exactly when the two
\* views have the same length and the same byte at every position; so same is
\* reflexive and symmetric, and two views of length 0 compare true.
C12_SameIffEqualViews ==
    \A a \in Bufs, b \in Bufs :
        (buf[a].live /\ buf[b].live) =>
            /\ same(Cur, a, b) =
                  ( /\ buf[a]._len = buf[b]._len
                    /\ \A j \in 0..(buf[a]._len - 1) : At(a, j) = At(b, j) )
            /\ same(Cur, a, a)
            /\ same(Cur, a, b) = same(Cur, b, a)
            /\ (buf[a]._len = 0 /\ buf[b]._len = 0) => same(Cur, a, b)
            /\ buf[a]._len # buf[b]._len => ~same(Cur, a, b)

\* two views of two bytes in different blocks compare true, a third view of
\* two bytes that differs from them in the last byte only compares false, and
\* so does its one-byte prefix
C12_Witness ==
    \E x \in Bufs, f \in Bufs, b \in Bufs :
        /\ buf[x].live /\ buf[f].live /\ buf[b].live
        /\ buf[x]._len = 2 /\ buf[f]._len = 2 /\ buf[b]._len = 2
        /\ buf[x]._data.blk # buf[f]._data.blk
        /\ same(Cur, f, x)
        /\ At(b, 0) = At(x, 0) /\ At(b, 1) # At(x, 1)
        /\ ~same(Cur, b, x)
        /\ ~same(slice(Cur, b, 0, 1), b, x)

\* the condition of C13 on one step
C13_Step ==
    \A b \in Bufs :
        ( /\ buf[b].live
          /\ buf[b]._alloc # 0
          /\ Cardinality(Holders(buf[b]._alloc)) >= 2
          /\ buf' = buf
          /\ DetachAlloc(b) ) =>
            LET a == buf[b]._alloc
            IN /\ fault' = "none"
               /\ caller' = caller \cup {alloc[a]._data}
               /\ alloc' = [alloc EXCEPT ![a]._data = NULL, ![a]._len = 0]
               /\ heap' = heap
               /\ \A c \in Holders(a) :
                     /\ buf'[c]._data = buf[c]._data
                     /\ buf'[c]._len = buf[c]._len
                     /\ buf'[c]._alloc = a
                     /\ (buf[c]._data # NULL => buf'[c]._data # alloc'[a]._data)

\* C13: detach_alloc on a buffer whose Alloc other live buffers hold as well is
\* not refused: it returns the Alloc's pointer, leaves the Alloc with null data
\* and length 0, frees nothing, and every holder keeps the Alloc, its data
\* pointer and its length, which now point at a block the Alloc does not have.
C13_DetachSharedIsSilent == [][C13_Step]_vars

\* two live buffers hold an Alloc whose block the caller was handed; the Alloc
\* has null data and length 0, both buffers still view the byte of the block
C13_Witness ==
    \E b \in Bufs, c \in Bufs :
        /\ b # c
        /\ buf[b].live /\ buf[c].live
        /\ buf[b]._alloc # 0 /\ buf[b]._alloc = buf[c]._alloc
        /\ Detached(buf[b]._alloc)
        /\ alloc[buf[b]._alloc]._data = NULL /\ alloc[buf[b]._alloc]._len = 0
        /\ alloc[buf[b]._alloc].use_count = 2
        /\ buf[b]._data = BlockOf(buf[b]._alloc) /\ buf[b]._len = 1
        /\ buf[c]._data = BlockOf(buf[c]._alloc) /\ buf[c]._len = 1
        /\ heap[buf[b]._alloc].st = "live"
        /\ fault = "none"

\* the condition of C14 on one step
C14_Step ==
    \A b \in Bufs :
        ( /\ buf[b].live
          /\ buf[b]._alloc = 0
          /\ (Reset(b) \/ DetachAlloc(b)) ) =>
            /\ fault' = "assert"
            /\ buf' = buf /\ alloc' = alloc /\ heap' = heap /\ caller' = caller

\* C14: reset() and detach_alloc() on a buffer that holds no Alloc (default
\* constructed or borrowing) stop the process with an assertion failure and
\* leave every buffer as it was.
C14_OwningOnlyOpsAssert == [][C14_Step]_vars

\* buffer b holds an Alloc handle
Owning(b) == buf[b]._alloc # 0

\* the condition of C15 on one step
C15_Step ==
    /\ \A b \in Bufs :
          (buf[b].live /\ buf'[b].live /\ buf'[b]._alloc # buf[b]._alloc) =>
             \E other \in Bufs :
                /\ buf[other].live
                /\ buf[other]._alloc # buf[b]._alloc
                /\ Assign(b, other)
                /\ buf'[b]._alloc = buf[other]._alloc
    /\ \A b \in Bufs :
          (buf[b].live /\ Owning(b) /\ caller' # caller /\ DetachAlloc(b)) =>
             /\ buf'[b].live
             /\ buf'[b]._alloc = buf[b]._alloc
             /\ alloc'[buf[b]._alloc].st = "live"
             /\ alloc'[buf[b]._alloc]._data = NULL

\* C15: the Alloc handle of a live buffer changes only in an assignment from a
\* buffer with another handle, so a buffer goes from holding an Alloc to
\* holding none, or back, only by assignment from a buffer of the other kind:
\* slice, reset, detach_alloc and being the source of a copy leave the handle
\* alone, and after detach_alloc the buffer still holds its emptied Alloc.
C15_KindChangesOnlyByAssign == [][C15_Step]_vars

\* one buffer holds an Alloc that was detached and has been reset to its empty
\* extent, a second holds the same Alloc with a view sliced before the detach,
\* and a borrowing buffer views the end of the wrapped memory
C15_Witness ==
    \E b \in Bufs, c \in Bufs, w \in Bufs :
        /\ buf[b].live /\ buf[c].live /\ buf[w].live
        /\ Owning(b) /\ buf[c]._alloc = buf[b]._alloc
        /\ Detached(buf[b]._alloc)
        /\ alloc[buf[b]._alloc].st = "live"
        /\ buf[b]._data = NULL /\ buf[b]._len = 0
        /\ buf[c]._data = PtrAdd(BlockOf(buf[c]._alloc), 1)
        /\ ~Owning(w)
        /\ buf[w]._data = [blk |-> ExtBlock, off |-> 1] /\ buf[w]._len = 1

\* the caller-managed memory is allocated, never freed and holds its bytes; no
\* Alloc points into it and every buffer that views it holds no Alloc
ExtUntouched ==
    /\ heap[ExtBlock] = [st |-> "live", bytes |-> ExtBytes, frees |-> 0]
    /\ \A a \in Allocs : alloc[a]._data.blk # ExtBlock
    /\ \A b \in Bufs :
          (buf[b].live /\ buf[b]._data.blk = ExtBlock) => buf[b]._alloc = 0

\* the condition of C16 on one step
C16_Step ==
    /\ ExtUntouched'
    /\ \A b \in Bufs :
          ( /\ ~buf[b].live /\ buf'[b].live /\ buf'[b]._data.blk = ExtBlock
            /\ \/ \E len \in 0..ExtLen : BufWrap(b, len)
               \/ \E other \in Bufs :
                     /\ buf[other].live /\ buf[other]._alloc = 0
                     /\ \/ BufCopy(b, other)
                        \/ \E offset \in SliceArgs, len \in SliceArgs :
                              BufCopySlice(b, other, offset, len) ) =>
             /\ buf'[b]._alloc = 0
             /\ alloc' = alloc
             /\ heap' = heap
    /\ \A b \in Bufs :
          ( /\ buf[b].live /\ buf[b]._alloc = 0 /\ ~buf'[b].live
            /\ Destroy(b) ) =>
             /\ alloc' = alloc
             /\ heap' = heap

\* C16: constructing a buffer from an external pointer, copying or slice-copying
\* a borrowing buffer and destroying one create no Alloc, change no count and
\* free nothing; through every construction, copy, assignment, slice and
\* destruction the external memory stays allocated with its bytes, no Alloc
\* points into it, and every buffer that views it holds no Alloc.
C16_BorrowingNeverOwns == [][C16_Step]_vars

\* a borrowing buffer views all of the external memory and a second one its
\* last byte, the third slot has been destroyed, and an Alloc has been freed
C16_Witness ==
    \E w \in Bufs, c \in Bufs, d \in Bufs :
        /\ buf[w].live /\ buf[c].live /\ ~buf[d].live
        /\ buf[w]._alloc = 0 /\ buf[c]._alloc = 0
        /\ buf[w]._data = [blk |-> ExtBlock, off |-> 0] /\ buf[w]._len = ExtLen
        /\ buf[c]._data = [blk |-> ExtBlock, off |-> ExtLen - 1] /\ buf[c]._len = 1
        /\ \A a \in Allocs : alloc[a].st = "dead" /\ heap[a].st = "freed"
        /\ heap[ExtBlock].st = "live" /\ heap[ExtBlock].frees = 0

\* the condition of C17 on one step
C17_Step ==
    \A b \in Bufs :
        ( /\ buf[b].live
          /\ buf[b]._alloc # 0
          /\ (caller' # caller \/ alloc' # alloc \/ buf' # buf)
          /\ heap' = heap
          /\ DetachAlloc(b) ) =>
            LET a == buf[b]._alloc
                Q == [buf |-> buf', alloc |-> alloc', heap |-> heap']
            IN /\ buf' = buf
               /\ length(Q, b) = length(Cur, b)
               /\ data(Q, b) = data(Cur, b)
               /\ alloc'[a]._len = 0
               /\ alloc'[a]._data = NULL
               /\ \A c \in Allocs : c # a => alloc'[c] = alloc[c]
               /\ alloc'[a].use_count = alloc[a].use_count
               /\ heap' = heap

\* C17: detach_alloc changes the Alloc only: every buffer, the detaching one
\* included and also when it is the only holder, keeps its data pointer and
\* length, so length() and data() return what they returned before while the
\* Alloc has length 0 and null data; no other Alloc and no block changes.
C17_DetachKeepsView == [][C17_Step]_vars

\* the only holder of a detached Alloc of one byte still has its view of
\* length 1 at the block, while the Alloc has length 0 and null data
C17_Witness ==
    \E b \in Bufs :
        /\ buf[b].live /\ buf[b]._alloc # 0
        /\ unique_alloc(Cur, b)
        /\ Detached(buf[b]._alloc)
        /\ length(Cur, b) = 1
        /\ data(Cur, b) = BlockOf(buf[b]._alloc)
        /\ alloc[buf[b]._alloc]._len = 0
        /\ alloc[buf[b]._alloc]._data = NULL

\* the condition of C18 on one step
C18_Step ==
    /\ \A b \in Bufs :
          ( /\ buf[b].live /\ buf'[b].live
            /\ buf' # buf
            /\ \/ \E offset \in SliceArgs, len \in SliceArgs : Slice(b, offset, len)
               \/ (buf[b]._alloc # 0 /\ Reset(b)) ) =>
             /\ \A c \in Bufs : c # b => buf'[c] = buf[c]
             /\ buf'[b]._alloc = buf[b]._alloc
             /\ alloc' = alloc
             /\ heap' = heap
    /\ \A d \in Bufs, s \in Bufs :
          ( /\ ~buf[d].live /\ buf'[d].live
            /\ buf[s].live
            /\ \E offset \in SliceArgs, len \in SliceArgs :
                  BufCopySlice(d, s, offset, len) ) =>
             /\ \A c \in Bufs : c # d => buf'[c] = buf[c]
             /\ heap' = heap
             /\ \A a \in Allocs :
                   /\ alloc'[a]._data = alloc[a]._data
                   /\ alloc'[a]._len = alloc[a]._len
                   /\ alloc'[a].st = alloc[a].st
                   /\ Holders(a)' = (IF a = buf[s]._alloc
                                     THEN Holders(a) \cup {d}
                                     ELSE Holders(a))
                   /\ alloc'[a].use_count = Cardinality(Holders(a)')

\* C18: slice and reset on one buffer change the data pointer and length of
\* that buffer only, and a sliced copy constructs the new buffer only: every
\* other buffer, the source and the other holders of the same Alloc included,
\* keeps its view, and every Alloc keeps its pointer, length, bytes and
\* holders, the new copy being the one holder added.
C18_ViewPerBuffer == [][C18_Step]_vars

\* three buffers hold one Alloc of one byte with three different views: all of
\* it, its empty end, and an empty view at its start
C18_Witness ==
    \E b \in Bufs, c \in Bufs, d \in Bufs :
        /\ buf[b].live /\ buf[c].live /\ buf[d].live
        /\ buf[b]._alloc # 0
        /\ buf[c]._alloc = buf[b]._alloc /\ buf[d]._alloc = buf[b]._alloc
        /\ alloc[buf[b]._alloc].use_count = 3
        /\ buf[b]._data.off = 0 /\ buf[b]._len = 1
        /\ buf[c]._data.off = 1 /\ buf[c]._len = 0
        /\ buf[d]._data.off = 0 /\ buf[d]._len = 0

\* the condition of C19 on one step
C19_Step ==
    /\ \A a \in Allocs :
          (alloc[a].st = "none" /\ \E len \in 0..ExtLen : AllocWrap(a, len)) =>
             /\ heap' = heap
             /\ fault' = "none"
    /\ \A a \in Allocs :
          (alloc[a].st = "live" /\ AllocDestroy(a)) =>
             /\ fault' = "none"
             /\ alloc'[a].st = "dead"
             /\ IF alloc[a]._data = BlockOf(a)
                THEN /\ heap'[a].st = "freed"
                     /\ heap'[a].frees = 1
                     /\ \A k \in Blocks : k # a => heap'[k] = heap[k]
                ELSE heap' = heap

\* C19: constructing an Alloc over a caller's pointer allocates and frees
\* nothing, and destroying an Alloc frees its block exactly when the Alloc was
\* made by Alloc(int) or by the copy constructor and has not been detached;
\* destroying a wrapping or a detached Alloc changes no memory and does not
\* stop the process.
C19_WrapNeverFrees == [][C19_Step]_vars

====
